---- MODULE Spec2Model ----
(***************************************************************************)
(* Model of the ldap_object resource of terraform-provider-ldap.           *)
(*                                                                         *)
(* Two variants of the resource exist in the repository: the map-shaped    *)
(* one (provider/resource_ldap_object.go, "attributes" is a TypeMap whose  *)
(* values may be JSON arrays) and the set-shaped one (unnamed/part_000,    *)
(* "attributes" is a TypeSet of single-entry maps).                        *)
(*                                                                         *)
(* Go strings are modelled as sequences of one-character strings, so that  *)
(* TrimSpace, HasPrefix, Sprintf, json.Marshal and json.Unmarshal are      *)
(* computed character by character.                                        *)
(***************************************************************************)
EXTENDS Integers, Sequences, FiniteSets, TLC

VARIABLES
    variant,    \* "map" (resource_ldap_object.go) or "set" (part_000)
    pc,         \* position of the modelled call
    o,          \* old value of "attributes" (d.GetChange)
    n,          \* new value of "attributes" (d.GetChange)
    modify,     \* modify.Changes: the sequence of changes of the ModifyRequest
    dir,        \* attribute mapping of the directory entry the request is sent to
    dn,         \* d.Get("dn")
    skip,       \* d.Get("skip_attributes") (map variant only)
    d,          \* the ResourceData fields written by read: id, object_classes, attributes
    search,     \* outcome of the last client.Search
    ret,        \* return value of the last call
    trace       \* what the last call did, in order: the diff and the directory calls

vars == <<variant, pc, o, n, modify, dir, dn, skip, d, search, ret, trace>>

----------------------------------------------------------------------------
(* Bounds *)

MaxNames == 2       \* number of attribute names in play
MaxRaw == 3         \* number of raw strings a map-shaped attribute may hold
MaxSetVals == 2     \* number of values a set-shaped entry may hold
MaxEntries == 2     \* largest set-shaped declared attribute set
MaxDirVals == 3     \* number of values the directory may hold
MaxValues == 2      \* longest value list of one directory attribute

----------------------------------------------------------------------------
(* Strings *)

Q == "\""           \* the double quote
BS == "\\"          \* the backslash

objectClass == <<"o","b","j","e","c","t","C","l","a","s","s">>

NamePool ==
    << <<"c","n">>, <<"m","a","i","l">>, <<"s","n">>, <<"o","u">> >>

Names == {NamePool[i] : i \in 1..MaxNames}

\* x   ["x"]   ["x","y"]   [x   y   (space)["y"]   []
RawPool ==
    << <<"x">>,
       <<"[", Q, "x", Q, "]">>,
       <<"[", Q, "x", Q, ",", Q, "y", Q, "]">>,
       <<"[", "x">>,
       <<"y">>,
       <<" ", "[", Q, "y", Q, "]">>,
       <<"[", "]">> >>

Raws == {RawPool[i] : i \in 1..MaxRaw}

\* strings.HasPrefix
HasPrefix(s, prefix) ==
    /\ Len(prefix) <= Len(s)
    /\ SubSeq(s, 1, Len(prefix)) = prefix

RECURSIVE SkipLeft(_, _)
SkipLeft(s, i) == IF i <= Len(s) /\ s[i] = " " THEN SkipLeft(s, i + 1) ELSE i

RECURSIVE SkipRight(_, _)
SkipRight(s, i) == IF i >= 1 /\ s[i] = " " THEN SkipRight(s, i - 1) ELSE i

\* strings.TrimSpace
TrimSpace(s) == SubSeq(s, SkipLeft(s, 1), SkipRight(s, Len(s)))

----------------------------------------------------------------------------
(* encoding/json, for []string *)

JSONFail == [ok |-> FALSE, val |-> <<>>, next |-> 0]

\* The body of a JSON string literal; i is the position after the opening
\* quote.  Only the escapes \" and \\ exist over the model's alphabet; any
\* other escaped character is a syntax error.
RECURSIVE ScanString(_, _, _)
ScanString(s, i, acc) ==
    IF i > Len(s) THEN JSONFail
    ELSE IF s[i] = Q THEN [ok |-> TRUE, val |-> acc, next |-> i + 1]
    ELSE IF s[i] = BS
         THEN IF i + 1 <= Len(s) /\ s[i + 1] \in {Q, BS}
              THEN ScanString(s, i + 2, Append(acc, s[i + 1]))
              ELSE JSONFail
    ELSE ScanString(s, i + 1, Append(acc, s[i]))

\* The elements of a non-empty array; i is the position where an element is
\* expected.  Every element must be a string literal.
RECURSIVE ScanElems(_, _, _)
ScanElems(s, i, acc) ==
    LET j == SkipLeft(s, i) IN
    IF j > Len(s) \/ s[j] # Q THEN JSONFail
    ELSE LET r == ScanString(s, j + 1, <<>>) IN
         IF ~r.ok THEN JSONFail
         ELSE LET k == SkipLeft(s, r.next) IN
              IF k > Len(s) THEN JSONFail
              ELSE IF s[k] = "," THEN ScanElems(s, k + 1, Append(acc, r.val))
              ELSE IF s[k] = "]"
                   THEN [ok |-> TRUE, val |-> Append(acc, r.val), next |-> k + 1]
              ELSE JSONFail

\* json.Unmarshal([]byte(in), &ret) with ret a []string: ok is "err == nil"
jsonUnmarshal(s) ==
    LET i == SkipLeft(s, 1) IN
    IF i > Len(s) \/ s[i] # "[" THEN JSONFail
    ELSE LET j == SkipLeft(s, i + 1)
             r == IF j <= Len(s) /\ s[j] = "]"
                  THEN [ok |-> TRUE, val |-> <<>>, next |-> j + 1]
                  ELSE ScanElems(s, j, <<>>)
         IN  IF r.ok /\ SkipLeft(s, r.next) > Len(s) THEN r ELSE JSONFail

RECURSIVE Escape(_)
Escape(s) ==
    IF s = <<>> THEN <<>>
    ELSE (IF Head(s) \in {Q, BS} THEN <<BS, Head(s)>> ELSE <<Head(s)>>)
         \o Escape(Tail(s))

RECURSIVE JoinQuoted(_)
JoinQuoted(vals) ==
    IF vals = <<>> THEN <<>>
    ELSE <<Q>> \o Escape(Head(vals)) \o <<Q>>
         \o (IF Len(vals) > 1 THEN <<",">> ELSE <<>>)
         \o JoinQuoted(Tail(vals))

\* json.Marshal(attribute.Values) of a non-nil []string
jsonMarshal(vals) == <<"[">> \o JoinQuoted(vals) \o <<"]">>

maybeJSONStringToArray(in) ==
    IF HasPrefix(TrimSpace(in), <<"[">>)
    THEN LET r == jsonUnmarshal(in) IN IF r.ok THEN r.val ELSE <<in>>
    ELSE <<in>>

stringListContains(needle, haystack) ==
    \E i \in 1..Len(haystack) : needle = haystack[i]

----------------------------------------------------------------------------
(* Iteration orders *)

\* The sequences that enumerate the set S once each
Perms(S) ==
    {p \in [1..Cardinality(S) -> S] : \A e \in S : \E i \in DOMAIN p : p[i] = e}

\* the orders in which a set of names may be visited, computed once
KeyOrders == [S \in SUBSET Names |-> Perms(S)]

\* range over a Go map: the keys of the map in an order the language leaves
\* open; ord is the order taken by this range statement
RangeKeys(m, ord) == SelectSeq(ord, LAMBDA k : k \in DOMAIN m)

\* util.Set.List(): the members of the set, each once, in the order ord
UtilSetList(S, ord) == SelectSeq(ord, LAMBDA k : k \in S)

----------------------------------------------------------------------------
(* ldap.ModifyRequest *)

Change(op, name, vals) == [op |-> op, name |-> name, vals |-> vals]

\* modify.Delete / modify.Add / modify.Replace append one change
ModifyDelete(m, name, vals) == Append(m, Change("Delete", name, vals))
ModifyAdd(m, name, vals) == Append(m, Change("Add", name, vals))
ModifyReplace(m, name, vals) == Append(m, Change("Replace", name, vals))

----------------------------------------------------------------------------
(* computeAndAddDeltas, map-shaped (resource_ldap_object.go) *)

\* maps name -> string with a domain inside Names
AttrMaps == UNION {[S -> Raws] : S \in SUBSET Names}

\* DeleteLoop with the test inverted: deletes the names newAttrs still has
RECURSIVE DeleteLoopInverted(_, _, _)
DeleteLoopInverted(m, keys, newAttrs) ==
    IF keys = <<>> THEN m
    ELSE DeleteLoopInverted(IF Head(keys) \in DOMAIN newAttrs
                            THEN ModifyDelete(m, Head(keys), <<>>)
                            ELSE m,
                            Tail(keys), newAttrs)

\* for oldName := range oldAttrs: delete the names newAttrs does not have
RECURSIVE DeleteLoop(_, _, _)
DeleteLoop(m, keys, newAttrs) ==
    IF keys = <<>> THEN m
    ELSE DeleteLoop(IF Head(keys) \notin DOMAIN newAttrs
                    THEN ModifyDelete(m, Head(keys), <<>>)
                    ELSE m,
                    Tail(keys), newAttrs)

\* AddLoop that sends the raw string instead of the decoded values
RECURSIVE AddLoopRaw(_, _, _, _)
AddLoopRaw(m, keys, oldAttrs, newAttrs) ==
    IF keys = <<>> THEN m
    ELSE AddLoopRaw(IF Head(keys) \notin DOMAIN oldAttrs
                    THEN ModifyAdd(m, Head(keys), <<newAttrs[Head(keys)]>>)
                    ELSE m,
                    Tail(keys), oldAttrs, newAttrs)

\* for newName, v := range newAttrs: add the names oldAttrs does not have
RECURSIVE AddLoop(_, _, _, _)
AddLoop(m, keys, oldAttrs, newAttrs) ==
    IF keys = <<>> THEN m
    ELSE AddLoop(IF Head(keys) \notin DOMAIN oldAttrs
                 THEN ModifyAdd(m, Head(keys),
                                maybeJSONStringToArray(newAttrs[Head(keys)]))
                 ELSE m,
                 Tail(keys), oldAttrs, newAttrs)

\* ReplaceLoop without the comparison of the two strings
RECURSIVE ReplaceLoopAlways(_, _, _, _)
ReplaceLoopAlways(m, keys, oldAttrs, newAttrs) ==
    IF keys = <<>> THEN m
    ELSE ReplaceLoopAlways(IF Head(keys) \in DOMAIN oldAttrs
                           THEN ModifyReplace(m, Head(keys),
                                    maybeJSONStringToArray(newAttrs[Head(keys)]))
                           ELSE m,
                           Tail(keys), oldAttrs, newAttrs)

\* for name, newValue := range newAttrs: replace the names both have with
\* different strings
RECURSIVE ReplaceLoop(_, _, _, _)
ReplaceLoop(m, keys, oldAttrs, newAttrs) ==
    IF keys = <<>> THEN m
    ELSE ReplaceLoop(IF /\ Head(keys) \in DOMAIN oldAttrs
                        /\ oldAttrs[Head(keys)] # newAttrs[Head(keys)]
                     THEN ModifyReplace(m, Head(keys),
                                        maybeJSONStringToArray(newAttrs[Head(keys)]))
                     ELSE m,
                     Tail(keys), oldAttrs, newAttrs)

\* computeAndAddDeltas with the loop of the additions before the loop of
\* the deletions
computeAndAddDeltasMapAddFirst(m, oldAttrs, newAttrs, ord1, ord2, ord3) ==
    LET m1 == AddLoop(m, RangeKeys(newAttrs, ord2), oldAttrs, newAttrs)
        m2 == DeleteLoop(m1, RangeKeys(oldAttrs, ord1), newAttrs)
    IN  ReplaceLoop(m2, RangeKeys(newAttrs, ord3), oldAttrs, newAttrs)

\* ord1, ord2, ord3: the orders in which the three range statements visit
\* the map keys (Go leaves them unspecified)
computeAndAddDeltasMap(m, oldAttrs, newAttrs, ord1, ord2, ord3) ==
    LET m1 == DeleteLoop(m, RangeKeys(oldAttrs, ord1), newAttrs)
        m2 == AddLoop(m1, RangeKeys(newAttrs, ord2), oldAttrs, newAttrs)
    IN  ReplaceLoop(m2, RangeKeys(newAttrs, ord3), oldAttrs, newAttrs)

----------------------------------------------------------------------------
(* hash/crc32 and attributeHash (part_000)                                 *)

ASCII ==
    [c \in {" ", Q, ",", ":", ";", "=", "C", "[", BS, "]", "a", "b", "c", "e",
            "i", "j", "l", "m", "n", "o", "p", "s", "t", "u", "x", "y", "{", "}"}
     |-> CASE c = " " -> 32  [] c = Q   -> 34  [] c = "," -> 44  [] c = ":" -> 58
           [] c = ";" -> 59  [] c = "=" -> 61  [] c = "C" -> 67  [] c = "[" -> 91
           [] c = BS  -> 92  [] c = "]" -> 93  [] c = "a" -> 97  [] c = "b" -> 98
           [] c = "c" -> 99  [] c = "e" -> 101 [] c = "i" -> 105 [] c = "j" -> 106
           [] c = "l" -> 108 [] c = "m" -> 109 [] c = "n" -> 110 [] c = "o" -> 111
           [] c = "p" -> 112 [] c = "s" -> 115 [] c = "t" -> 116 [] c = "u" -> 117
           [] c = "x" -> 120 [] c = "y" -> 121 [] c = "{" -> 123 [] c = "}" -> 125]

\* bitwise exclusive or of two numbers below 2^k
RECURSIVE XorBits(_, _, _)
XorBits(a, b, k) ==
    IF k = 0 THEN 0
    ELSE ((a + b) % 2) + 2 * XorBits(a \div 2, b \div 2, k - 1)

\* a 32-bit word is the pair <<hi, lo>> of its two 16-bit halves
Xor(a, b) == <<XorBits(a[1], b[1], 16), XorBits(a[2], b[2], 16)>>

ShiftRight(a) == <<a[1] \div 2, (a[2] \div 2) + (a[1] % 2) * 32768>>

AllOnes == <<65535, 65535>>

\* crc32.IEEE, 0xedb88320
IEEE == <<60856, 33568>>

RECURSIVE CrcBits(_, _)
CrcBits(crc, k) ==
    IF k = 0 THEN crc
    ELSE CrcBits(IF crc[2] % 2 = 1 THEN Xor(ShiftRight(crc), IEEE)
                 ELSE ShiftRight(crc),
                 k - 1)

\* one byte at a time; the word after each byte is bound by a quantifier so
\* that it is computed before the next byte is taken
RECURSIVE CrcUpdate(_, _)
CrcUpdate(crc, s) ==
    IF s = <<>> THEN crc
    ELSE CHOOSE r \in {CrcUpdate(c, Tail(s)) :
                          c \in {CrcBits(Xor(crc, <<0, ASCII[Head(s)]>>), 8)}} : TRUE

\* crc32.ChecksumIEEE
ChecksumIEEE(s) == Xor(CrcUpdate(AllOnes, s), AllOnes)

\* strconv.Itoa of hi * 65536 + lo, as a sequence of digits
RECURSIVE Digits(_, _)
Digits(hi, lo) ==
    LET mid == (hi % 10) * 65536 + lo
        qhi == hi \div 10
        qlo == mid \div 10
        \* the quotient is qhi * 65536 + qlo, renormalised
        nhi == qhi + (qlo \div 65536)
        nlo == qlo % 65536
    IN  IF nhi = 0 /\ nlo = 0 THEN <<mid % 10>>
        ELSE Append(Digits(nhi, nlo), mid % 10)

\* fmt.Sprintf("%q", s) for the characters of the model
Quote(s) == <<Q>> \o Escape(s) \o <<Q>>

\* the only key of a single-entry map
KeyOf(m) == CHOOSE k \in DOMAIN m : TRUE

\* attributeHash: the checksum of  map {"name" := "value";}  ; int(uint32)
\* is not negative where int has 64 bits, so h itself is returned
attributeHash(m) ==
    ChecksumIEEE(<<"m","a","p"," ","{">>
                 \o Quote(KeyOf(m)) \o <<" ", ":", "=", " ">> \o Quote(m[KeyOf(m)])
                 \o <<";">> \o <<"}">>)

\* schema.Set.hash: the key of an item is strconv.Itoa(F(item))
SetKey(m) ==
    LET h == attributeHash(m) IN Digits(h[1], h[2])

----------------------------------------------------------------------------
(* schema.Set with F = attributeHash (part_000)                            *)

\* the values a set-shaped entry may hold:  x   y   ["x"]
SetValPool == << <<"x">>, <<"y">>, <<"[", Q, "x", Q, "]">> >>

SetVals == {SetValPool[i] : i \in 1..MaxSetVals}

\* the single-entry maps {name: value} of the declared sets
SetEntries == {k :> v : k \in Names, v \in SetVals}

AttrSets == {S \in SUBSET SetEntries : Cardinality(S) <= MaxEntries}

\* the values the directory may hold:  x   ["x","y"]   y   xy
DirValPool ==
    << <<"x">>,
       <<"[", Q, "x", Q, ",", Q, "y", Q, "]">>,
       <<"y">>,
       <<"x", "y">> >>

DirVals == {DirValPool[i] : i \in 1..MaxDirVals}

\* the keys of all single-entry maps of the model, computed once
KeyTable == [e \in {k :> v : k \in Names, v \in SetVals \cup DirVals} |-> SetKey(e)]

\* order of Go strings holding digits, as sort.Strings compares them
StrLess(a, b) ==
    \E i \in 1..Len(b) :
        /\ \A j \in 1..(i - 1) : j <= Len(a) /\ a[j] = b[j]
        /\ i > Len(a) \/ a[i] < b[i]

\* Difference that compares nothing: every item of s
DifferenceAll(s, t) == s

\* Set.Difference: the items of s whose key t does not hold
Difference(s, t) == {e \in s : \A f \in t : KeyTable[f] # KeyTable[e]}

\* Set.Intersection: the items of s whose key t holds too
Intersection(s, t) == {e \in s : \E f \in t : KeyTable[f] = KeyTable[e]}

\* Set.List: the items in the order of their sorted keys
RECURSIVE SetList(_)
SetList(s) ==
    IF s = {} THEN <<>>
    ELSE LET first == CHOOSE e \in s :
                        \A f \in s \ {e} : StrLess(KeyTable[e], KeyTable[f])
         IN  <<first>> \o SetList(s \ {first})

----------------------------------------------------------------------------
(* computeAndAddDeltas, set-shaped (part_000)                              *)

\* for _, v := range items { for k := range v { set.Add(k) } }
NamesOf(items) == UNION {DOMAIN v : v \in items}

\* rk: names of removed attributes
RemovedNames(os, ns) == NamesOf(Difference(os, ns))

\* ak: names of added attributes
AddedNames(os, ns) == NamesOf(Difference(ns, os))

\* kk: names of kept attributes
KeptNames(os, ns) == NamesOf(Intersection(ns, os))

\* for _, m := range ns.List() { for mk, mv := range m { if k == mk {
\*     values = append(values, mv) } } }
ValuesFor(k, ns) ==
    LET sel == SelectSeq(SetList(ns), LAMBDA m : k \in DOMAIN m)
    IN  [i \in 1..Len(sel) |-> sel[i][k]]

\* RemovedLoop that forgets the kept names
RECURSIVE RemovedLoopIgnoreKept(_, _, _, _)
RemovedLoopIgnoreKept(st, keys, ak, kk) ==
    IF keys = <<>> THEN st
    ELSE RemovedLoopIgnoreKept(
            IF Head(keys) \notin ak
            THEN [st EXCEPT !.m = ModifyDelete(st.m, Head(keys), <<>>)]
            ELSE [st EXCEPT !.ck = st.ck \cup {Head(keys)}],
            Tail(keys), ak, kk)

\* loop over rk.List(); st holds the request and the set ck
RECURSIVE RemovedLoop(_, _, _, _)
RemovedLoop(st, keys, ak, kk) ==
    IF keys = <<>> THEN st
    ELSE RemovedLoop(IF Head(keys) \notin ak /\ Head(keys) \notin kk
                     THEN [st EXCEPT !.m = ModifyDelete(st.m, Head(keys), <<>>)]
                     ELSE [st EXCEPT !.ck = st.ck \cup {Head(keys)}],
                     Tail(keys), ak, kk)

\* AddedLoop that forgets the kept names
RECURSIVE AddedLoopIgnoreKept(_, _, _, _, _)
AddedLoopIgnoreKept(st, keys, rk, kk, ns) ==
    IF keys = <<>> THEN st
    ELSE AddedLoopIgnoreKept(
            IF Head(keys) \notin rk
            THEN [st EXCEPT !.m = ModifyAdd(st.m, Head(keys),
                                            ValuesFor(Head(keys), ns))]
            ELSE [st EXCEPT !.ck = st.ck \cup {Head(keys)}],
            Tail(keys), rk, kk, ns)

\* loop over ak.List()
RECURSIVE AddedLoop(_, _, _, _, _)
AddedLoop(st, keys, rk, kk, ns) ==
    IF keys = <<>> THEN st
    ELSE AddedLoop(IF Head(keys) \notin rk /\ Head(keys) \notin kk
                   THEN [st EXCEPT !.m = ModifyAdd(st.m, Head(keys),
                                                   ValuesFor(Head(keys), ns))]
                   ELSE [st EXCEPT !.ck = st.ck \cup {Head(keys)}],
                   Tail(keys), rk, kk, ns)

\* ChangedLoop that adds the values instead of replacing them
RECURSIVE ChangedLoopAdd(_, _, _)
ChangedLoopAdd(m, keys, ns) ==
    IF keys = <<>> THEN m
    ELSE ChangedLoopAdd(ModifyAdd(m, Head(keys), ValuesFor(Head(keys), ns)),
                        Tail(keys), ns)

\* loop over ck.List()
RECURSIVE ChangedLoop(_, _, _)
ChangedLoop(m, keys, ns) ==
    IF keys = <<>> THEN m
    ELSE ChangedLoop(ModifyReplace(m, Head(keys), ValuesFor(Head(keys), ns)),
                     Tail(keys), ns)

\* ordR, ordA, ordC: the orders of rk.List(), ak.List() and ck.List()
computeAndAddDeltasSet(m, os, ns, ordR, ordA, ordC) ==
    LET rk == RemovedNames(os, ns)
        ak == AddedNames(os, ns)
        kk == KeptNames(os, ns)
        s1 == RemovedLoop([m |-> m, ck |-> {}], UtilSetList(rk, ordR), ak, kk)
        s2 == AddedLoop(s1, UtilSetList(ak, ordA), rk, kk, ns)
    IN  ChangedLoop(s2.m, UtilSetList(s2.ck, ordC), ns)

----------------------------------------------------------------------------
(* The attribute mapping a declared attribute set stands for *)

\* map-shaped: each string decoded as create and update decode it
DecodeMap(attrs) == [k \in DOMAIN attrs |-> maybeJSONStringToArray(attrs[k])]

\* set-shaped: the values of the same-named entries collected, as create
\* collects them from attributes.List()
DecodeSet(attrs) == [k \in NamesOf(attrs) |-> ValuesFor(k, attrs)]

Decode(v, attrs) == IF v = "map" THEN DecodeMap(attrs) ELSE DecodeSet(attrs)

----------------------------------------------------------------------------
(* The directory's handling of a modify request *)

Without(f, k) == [x \in DOMAIN f \ {k} |-> f[x]]

With(f, k, v) == [x \in DOMAIN f \cup {k} |-> IF x = k THEN v ELSE f[x]]

\* Delete with no values removes the attribute, Add creates it (or adds to
\* its values), Replace overwrites its values
ApplyChange(attrs, c) ==
    CASE c.op = "Delete"  -> Without(attrs, c.name)
      [] c.op = "Add"     -> With(attrs, c.name,
                                  IF c.name \in DOMAIN attrs
                                  THEN attrs[c.name] \o c.vals ELSE c.vals)
      [] c.op = "Replace" -> With(attrs, c.name, c.vals)

RECURSIVE ApplyChanges(_, _)
ApplyChanges(attrs, changes) ==
    IF changes = <<>> THEN attrs
    ELSE ApplyChanges(ApplyChange(attrs, Head(changes)), Tail(changes))

----------------------------------------------------------------------------
(* Specification of the delta computation: the old and new declared        *)
(* attributes are drawn from the bounded sets, computeAndAddDeltas fills   *)
(* an empty modify request and the directory applies it to the entry that  *)
(* the old attributes stand for.                                           *)

\* the resource data of a resource that has not been created or read yet
NoData(v) ==
    [id |-> <<>>, object_classes |-> {},
     attributes |-> IF v = "map" THEN <<>> ELSE {}]

InitDiff ==
    /\ variant \in {"map", "set"}
    /\ pc = "start"
    /\ o \in (IF variant = "map" THEN AttrMaps ELSE AttrSets)
    /\ n \in (IF variant = "map" THEN AttrMaps ELSE AttrSets)
    /\ modify = <<>>
    /\ dir = Decode(variant, o)
    /\ dn = <<>>
    /\ skip = {}
    /\ d = NoData(variant)
    /\ search = "none"
    /\ ret = "none"
    /\ trace = <<>>

DiffMap ==
    /\ variant = "map"
    /\ pc = "start"
    /\ \E ord1 \in KeyOrders[DOMAIN o], ord2, ord3 \in KeyOrders[DOMAIN n] :
          modify' = computeAndAddDeltasMap(modify, o, n, ord1, ord2, ord3)
    /\ ret' = "nil"
    /\ pc' = "computed"
    /\ UNCHANGED <<variant, o, n, dir, dn, skip, d, search, trace>>

DiffSet ==
    /\ variant = "set"
    /\ pc = "start"
    /\ \E ordR \in KeyOrders[RemovedNames(o, n)],
          ordA \in KeyOrders[AddedNames(o, n)],
          ordC \in KeyOrders[RemovedNames(o, n) \cup AddedNames(o, n)] :
          modify' = computeAndAddDeltasSet(modify, o, n, ordR, ordA, ordC)
    /\ ret' = "nil"
    /\ pc' = "computed"
    /\ UNCHANGED <<variant, o, n, dir, dn, skip, d, search, trace>>

DirectoryModify ==
    /\ pc = "computed"
    /\ dir' = ApplyChanges(dir, modify)
    /\ pc' = "applied"
    /\ UNCHANGED <<variant, o, n, modify, dn, skip, d, search, ret, trace>>

NextDiff == DiffMap \/ DiffSet \/ DirectoryModify

SpecDiff == InitDiff /\ [][NextDiff]_vars

----------------------------------------------------------------------------
(* Properties of the delta computation (SpecDiff) *)

\* C1: map-shaped computeAndAddDeltas(old, new) puts on the request exactly:
\* one Delete(name) for each name of old absent from new, one
\* Add(name, parseValue(new[name])) for each name of new absent from old, one
\* Replace(name, parseValue(new[name])) for each name of both whose strings
\* differ, and nothing for a name of both with equal strings.
C1_MapDeltasExact ==
    (variant = "map" /\ pc # "start") =>
        LET expected ==
                {Change("Delete", k, <<>>) : k \in DOMAIN o \ DOMAIN n}
                \cup {Change("Add", k, maybeJSONStringToArray(n[k])) :
                        k \in DOMAIN n \ DOMAIN o}
                \cup {Change("Replace", k, maybeJSONStringToArray(n[k])) :
                        k \in {x \in DOMAIN n \cap DOMAIN o : o[x] # n[x]}}
        IN  /\ {modify[i] : i \in DOMAIN modify} = expected
            /\ Len(modify) = Cardinality(expected)

\* C1 witness: the diff of two maps that share one name with equal strings
\* and one name with different strings has been computed.
C1_Witness ==
    /\ variant = "map" /\ pc = "computed"
    /\ \E a, b \in DOMAIN o \cap DOMAIN n : o[a] = n[a] /\ o[b] # n[b]
    /\ Len(modify) = 1 /\ modify[1].op = "Replace"

\* C2: set-shaped computeAndAddDeltas: a name with heterogeneous changes (in
\* the names of old-new and also of new-old or new/\old, or in the names of
\* new-old and also of new/\old) gets exactly one Replace(name, values) with
\* every value paired with the name in new, and no Add and no Delete.
C2_SetReplaceOnMixed ==
    (variant = "set" /\ pc # "start") =>
        LET nm(S) == {k \in Names : \E e \in S : k \in DOMAIN e}
            rn == nm(o \ n)
            an == nm(n \ o)
            kn == nm(n \cap o)
        IN  \A k \in Names :
                ((k \in rn /\ (k \in an \/ k \in kn)) \/ (k \in an /\ k \in kn)) =>
                    LET cs == SelectSeq(modify, LAMBDA c : c.name = k)
                        nv == {e[k] : e \in {f \in n : k \in DOMAIN f}}
                    IN  /\ Len(cs) = 1
                        /\ cs[1].op = "Replace"
                        /\ {cs[1].vals[i] : i \in DOMAIN cs[1].vals} = nv
                        /\ Len(cs[1].vals) = Cardinality(nv)

\* C2 witness: a name that lost one value and kept another has been replaced.
C2_Witness ==
    /\ variant = "set" /\ pc = "computed"
    /\ \E k \in Names :
          /\ \E e \in o \ n : k \in DOMAIN e
          /\ \E e \in n \cap o : k \in DOMAIN e
          /\ \E i \in DOMAIN modify : modify[i].name = k /\ modify[i].op = "Replace"

\* C3: set-shaped computeAndAddDeltas: Add(name, values) is emitted if and
\* only if the name is among the names of new-old and in neither the names of
\* old-new nor those of new/\old; it is emitted once and its values are all
\* values paired with the name in new.
C3_SetAddIffNew ==
    (variant = "set" /\ pc # "start") =>
        LET nm(S) == {k \in Names : \E e \in S : k \in DOMAIN e}
        IN  \A k \in Names :
                LET adds == SelectSeq(modify,
                                      LAMBDA c : c.name = k /\ c.op = "Add")
                    nv == {e[k] : e \in {f \in n : k \in DOMAIN f}}
                IN  IF k \in nm(n \ o) /\ k \notin nm(o \ n) /\ k \notin nm(n \cap o)
                    THEN /\ Len(adds) = 1
                         /\ {adds[1].vals[i] : i \in DOMAIN adds[1].vals} = nv
                         /\ Len(adds[1].vals) = Cardinality(nv)
                    ELSE adds = <<>>

\* C3 witness: a brand-new name with two values has been added while another
\* name was left alone.
C3_Witness ==
    /\ variant = "set" /\ pc = "computed"
    /\ o # {}
    /\ \E i \in DOMAIN modify : modify[i].op = "Add" /\ Len(modify[i].vals) = 2

\* C4: set-shaped computeAndAddDeltas: Delete(name) with an empty value list
\* is emitted if and only if the name is among the names of old-new and in
\* neither the names of new-old nor those of new/\old, that is exactly when
\* old has the name and no entry with that name remains in new.
C4_SetRemoveIffGone ==
    (variant = "set" /\ pc # "start") =>
        LET nm(S) == {k \in Names : \E e \in S : k \in DOMAIN e}
        IN  \A k \in Names :
                LET dels == SelectSeq(modify,
                                      LAMBDA c : c.name = k /\ c.op = "Delete")
                    cond == k \in nm(o \ n) /\ k \notin nm(n \ o)
                            /\ k \notin nm(n \cap o)
                IN  /\ cond <=> (k \in nm(o) /\ k \notin nm(n))
                    /\ IF cond
                       THEN Len(dels) = 1 /\ dels[1].vals = <<>>
                       ELSE dels = <<>>

\* C4 witness: a name with two values was dropped while another name stays.
C4_Witness ==
    /\ variant = "set" /\ pc = "computed"
    /\ n # {}
    /\ \E i \in DOMAIN modify :
          /\ modify[i].op = "Delete"
          /\ Cardinality({e \in o : modify[i].name \in DOMAIN e}) = 2

\* C5: applying the emitted deltas, in the emitted order, to a directory
\* attribute mapping equal to the decoding of old yields the decoding of new
\* (both variants).
C5_PatchConverges ==
    pc = "applied" => dir = Decode(variant, n)

\* C5 witness: a patch of at least two changes has been applied to an entry
\* that differed from the decoding of new.
C5_Witness ==
    /\ pc = "applied"
    /\ Len(modify) >= 2
    /\ Decode(variant, o) # Decode(variant, n)

\* C6 as stated: a name whose decoded value list is the same in old and new
\* (for the map variant, the same after parseValue) gets no delta.
C6_NoDeltaWhenDecodedEqual ==
    pc # "start" =>
        \A k \in Names :
            LET do == Decode(variant, o)
                dnew == Decode(variant, n)
            IN  ((k \in DOMAIN do) = (k \in DOMAIN dnew)
                 /\ (k \in DOMAIN do => do[k] = dnew[k]))
                => \A i \in DOMAIN modify : modify[i].name # k

\* C6 amended: a name gets no delta when it is declared the same way in old
\* and new: in the map variant absent from both or held with equal strings,
\* in the set variant with the same decoded value list.
C6_NoDeltaWhenDeclaredEqual ==
    pc # "start" =>
        \A k \in Names :
            LET same == IF variant = "map"
                        THEN /\ (k \in DOMAIN o) = (k \in DOMAIN n)
                             /\ k \in DOMAIN o => o[k] = n[k]
                        ELSE LET do == DecodeSet(o)
                                 dnew == DecodeSet(n)
                             IN  /\ (k \in DOMAIN do) = (k \in DOMAIN dnew)
                                 /\ k \in DOMAIN do => do[k] = dnew[k]
            IN  same => \A i \in DOMAIN modify : modify[i].name # k

\* C6 witness: a patch was computed that changes one name and leaves alone
\* another name that is declared the same in old and new.
C6_Witness ==
    /\ pc = "computed"
    /\ modify # <<>>
    /\ \E k \in Names :
          /\ k \in DOMAIN Decode(variant, o)
          /\ k \in DOMAIN Decode(variant, n)
          /\ IF variant = "map" THEN o[k] = n[k]
             ELSE DecodeSet(o)[k] = DecodeSet(n)[k]

\* C7: computeAndAddDeltas(X, X) adds no Add, no Delete and no Replace to the
\* request, for map-shaped and set-shaped X.
C7_EmptyDiff ==
    (pc # "start" /\ o = n) => modify = <<>>

\* C7 witness: the diff of a set with two values under one name against
\* itself has been computed.
C7_Witness ==
    /\ pc = "computed"
    /\ o = n
    /\ variant = "set"
    /\ \E k \in Names : Cardinality({e \in o : k \in DOMAIN e}) = 2

----------------------------------------------------------------------------
(* readLDAPObject *)

DN1 == <<"c","n","=","x",",","d","c","=","z">>
DN2 == <<"m","a","i","l","=","x",",","d","c","=","z">>
DNs == {DN1, DN2}

top == <<"t","o","p">>
person == <<"p","e","r","s","o","n">>

\* Entry.GetAttributeValues: the values of the first attribute of that name
GetAttributeValues(entry, name) ==
    LET sel == SelectSeq(entry.Attributes, LAMBDA a : a.Name = name)
    IN  IF sel = <<>> THEN <<>> ELSE sel[1].Values

\* IsNoSuchObject without the test of the result code: any *ldap.Error
IsNoSuchObjectAnyLDAP(err) == err \in {"ldap32", "ldap50"}

\* the error of the search is an *ldap.Error with ResultCode == 32; the
\* errors are "ldap32", "ldap50" (an *ldap.Error with another result code)
\* and "neterr" (an error that is not an *ldap.Error)
IsNoSuchObject(err) == err = "ldap32"

\* the RDN test with the arguments of HasPrefix exchanged
IsRDNSwapped(attribute, dnv) ==
    /\ Len(attribute.Values) = 1
    /\ HasPrefix(attribute.Name \o <<"=">> \o attribute.Values[1], dnv)

\* len(attribute.Values) == 1 and dn has the prefix "name=value"
IsRDN(attribute, dnv) ==
    /\ Len(attribute.Values) = 1
    /\ HasPrefix(dnv, attribute.Name \o <<"=">> \o attribute.Values[1])

\* the members of a set of strings as a list
RECURSIVE SetToSeq(_)
SetToSeq(S) ==
    IF S = {} THEN <<>>
    ELSE LET x == CHOOSE y \in S : TRUE IN <<x>> \o SetToSeq(S \ {x})

\* attributesToSkip: "objectClass" and then skip_attributes
AttributesToSkip(skipv) == <<objectClass>> \o SetToSeq(skipv)

\* the loop over searchResult.Entries[0].Attributes, map-shaped
RECURSIVE ReadLoopMap(_, _, _, _)
ReadLoopMap(attributes, list, dnv, attributesToSkip) ==
    IF list = <<>> THEN attributes
    ELSE LET attribute == Head(list)
             next ==
                IF stringListContains(attribute.Name, attributesToSkip)
                THEN attributes
                ELSE IF IsRDN(attribute, dnv) THEN attributes
                ELSE IF Len(attribute.Values) = 1
                     THEN With(attributes, attribute.Name, attribute.Values[1])
                     ELSE With(attributes, attribute.Name,
                               jsonMarshal(attribute.Values))
         IN  ReadLoopMap(next, Tail(list), dnv, attributesToSkip)

\* Set.Add: the item is added unless its key is held already
SetAdd(s, item) ==
    IF \E f \in s : KeyTable[f] = KeyTable[item] THEN s ELSE s \cup {item}

RECURSIVE AddValues(_, _, _)
AddValues(set, name, values) ==
    IF values = <<>> THEN set
    ELSE AddValues(SetAdd(set, name :> Head(values)), name, Tail(values))

\* the loop over sr.Entries[0].Attributes, set-shaped
RECURSIVE ReadLoopSet(_, _, _)
ReadLoopSet(set, list, dnv) ==
    IF list = <<>> THEN set
    ELSE LET attribute == Head(list)
             next ==
                IF attribute.Name = objectClass THEN set
                ELSE IF IsRDN(attribute, dnv) THEN set
                ELSE AddValues(set, attribute.Name, attribute.Values)
         IN  ReadLoopSet(next, Tail(list), dnv)

\* readLDAPObject of resource_ldap_object.go; sr is the outcome of
\* client.Search: err is "nil" or the error, entry is Entries[0].
\* The result is the ResourceData after the call and the returned error.
readLDAPObjectMap(dd, dnv, skipv, sr, updateState) ==
    IF sr.err # "nil"
    THEN IF IsNoSuchObject(sr.err) /\ updateState
         THEN [d |-> [dd EXCEPT !.id = <<>>], ret |-> "nil"]
         ELSE [d |-> dd, ret |-> sr.err]
    ELSE [d |-> [id |-> dnv,
                 object_classes |->
                    LET oc == GetAttributeValues(sr.entry, objectClass)
                    IN  {oc[i] : i \in DOMAIN oc},
                 attributes |-> ReadLoopMap(<<>>, sr.entry.Attributes, dnv,
                                            AttributesToSkip(skipv))],
          ret |-> "nil"]

\* readLDAPObject of part_000
readLDAPObjectSet(dd, dnv, sr, updateState) ==
    IF sr.err # "nil"
    THEN IF IsNoSuchObject(sr.err) /\ updateState
         THEN [d |-> [dd EXCEPT !.id = <<>>], ret |-> "nil"]
         ELSE [d |-> dd, ret |-> sr.err]
    ELSE [d |-> [id |-> dnv,
                 object_classes |->
                    LET oc == GetAttributeValues(sr.entry, objectClass)
                    IN  {oc[i] : i \in DOMAIN oc},
                 attributes |-> ReadLoopSet({}, sr.entry.Attributes, dnv)],
          ret |-> "nil"]

----------------------------------------------------------------------------
(* Specification of the read: the resource data before the call and the    *)
(* answer of the directory are drawn from the bounded sets, and            *)
(* resourceLDAPObjectRead is called once.                                  *)

\* the value lists of one directory attribute: distinct values, not empty
ValueLists ==
    UNION {{v \in [1..l -> DirVals] : \A i, j \in 1..l : i # j => v[i] # v[j]} :
           l \in 1..MaxValues}

ClassLists == {<<top, person>>}

\* the attributes of an entry besides objectClass, names in the order of NamePool
RECURSIVE AttrLists(_)
AttrLists(i) ==
    IF i > MaxNames THEN {<<>>}
    ELSE LET rest == AttrLists(i + 1)
         IN  rest \cup {<<[Name |-> NamePool[i], Values |-> v]>> \o r :
                            v \in ValueLists, r \in rest}

Entries ==
    {[Attributes |-> <<[Name |-> objectClass, Values |-> c]>> \o a] :
        c \in ClassLists, a \in AttrLists(1)}

NoEntry == [Attributes |-> <<>>]

\* the answers of client.Search: an entry, result code 32, another LDAP
\* result code, or an error that is not an *ldap.Error
SearchResults ==
    {[err |-> "nil", entry |-> e] : e \in Entries}
    \cup {[err |-> x, entry |-> NoEntry] : x \in {"ldap32", "ldap50", "neterr"}}

\* the leading RDN component of a DN: the text before the first comma
RECURSIVE LeadingRDN(_)
LeadingRDN(dnv) ==
    IF dnv = <<>> \/ Head(dnv) = "," THEN <<>>
    ELSE <<Head(dnv)>> \o LeadingRDN(Tail(dnv))

\* the entry found under a DN holds the value of its RDN: the attribute the
\* RDN names is there and the RDN's value is one of its values
Named(entry, dnv) ==
    \E i \in DOMAIN entry.Attributes :
        \E j \in DOMAIN entry.Attributes[i].Values :
            entry.Attributes[i].Name \o <<"=">> \o entry.Attributes[i].Values[j]
                = LeadingRDN(dnv)

\* the answers client.Search may give for the base DN dnv
SearchResultsFor(dnv) ==
    {sr \in SearchResults : sr.err = "nil" => Named(sr.entry, dnv)}

\* the resource data before the call: nothing yet, or an id, a class and
\* one declared attribute
PriorData(v, dnv) ==
    {NoData(v),
     [id |-> dnv, object_classes |-> {top},
      attributes |-> IF v = "map" THEN NamePool[1] :> RawPool[1]
                     ELSE {NamePool[1] :> SetValPool[1]}]}

InitRead ==
    /\ variant \in {"map", "set"}
    /\ pc = "start"
    /\ o = <<>>
    /\ n = <<>>
    /\ modify = <<>>
    /\ dir = <<>>
    /\ dn \in DNs
    /\ skip \in (IF variant = "map" THEN {{}} \cup {{k} : k \in Names} ELSE {{}})
    /\ d \in PriorData(variant, dn)
    /\ search = "none"
    /\ ret = "none"
    /\ trace = <<>>

\* resourceLDAPObjectRead of resource_ldap_object.go
ReadMap ==
    /\ variant = "map"
    /\ pc = "start"
    /\ \E sr \in SearchResultsFor(dn) :
          LET r == readLDAPObjectMap(d, dn, skip, sr, TRUE)
          IN  /\ search' = sr
              /\ d' = r.d
              /\ ret' = r.ret
    /\ pc' = "read"
    /\ UNCHANGED <<variant, o, n, modify, dir, dn, skip, trace>>

\* resourceLDAPObjectRead of part_000
ReadSet ==
    /\ variant = "set"
    /\ pc = "start"
    /\ \E sr \in SearchResultsFor(dn) :
          LET r == readLDAPObjectSet(d, dn, sr, TRUE)
          IN  /\ search' = sr
              /\ d' = r.d
              /\ ret' = r.ret
    /\ pc' = "read"
    /\ UNCHANGED <<variant, o, n, modify, dir, dn, skip, trace>>

NextRead == ReadMap \/ ReadSet

SpecRead == InitRead /\ [][NextRead]_vars

----------------------------------------------------------------------------
(* Properties of the read (SpecRead) *)

\* C8: after a successful read (both variants) the declared attributes in
\* state hold no entry for objectClass and no entry for a single-valued
\* attribute whose name=value equals the leading RDN component of the DN.
C8_NoObjectClassNoRDN ==
    (pc = "read" /\ search.err = "nil") =>
        LET declared == IF variant = "map" THEN DOMAIN d.attributes
                        ELSE UNION {DOMAIN e : e \in d.attributes}
            attrs == search.entry.Attributes
        IN  /\ objectClass \notin declared
            /\ \A i \in DOMAIN attrs :
                  (/\ Len(attrs[i].Values) = 1
                   /\ attrs[i].Name \o <<"=">> \o attrs[i].Values[1]
                        = LeadingRDN(dn))
                  => attrs[i].Name \notin declared

\* C8 witness: an entry holding its RDN attribute with one value and another
\* attribute has been read, and the other attribute is in state.
C8_Witness ==
    /\ pc = "read" /\ search.err = "nil"
    /\ \E i \in DOMAIN search.entry.Attributes :
          LET a == search.entry.Attributes[i]
          IN  /\ Len(a.Values) = 1
              /\ a.Name \o <<"=">> \o a.Values[1] = LeadingRDN(dn)
    /\ d.attributes # (IF variant = "map" THEN <<>> ELSE {})

\* C9: after a successful read, every attribute of the entry that is neither
\* objectClass, nor a name in skip_attributes, nor the single value forming
\* the RDN of the DN is present in the declared attributes, and decoding the
\* declared form (parseValue per name in map mode, the same-named entries in
\* set mode) gives back exactly the values of the attribute.
C9_ReadRoundTrip ==
    (pc = "read" /\ search.err = "nil") =>
        LET attrs == search.entry.Attributes
            back == Decode(variant, d.attributes)
        IN  \A i \in DOMAIN attrs :
                (/\ attrs[i].Name # objectClass
                 /\ attrs[i].Name \notin skip
                 /\ ~(/\ Len(attrs[i].Values) = 1
                      /\ attrs[i].Name \o <<"=">> \o attrs[i].Values[1]
                            = LeadingRDN(dn)))
                => /\ attrs[i].Name \in DOMAIN back
                   /\ IF variant = "map"
                      THEN back[attrs[i].Name] = attrs[i].Values
                      ELSE LET b == back[attrs[i].Name]
                           IN  /\ Len(b) = Len(attrs[i].Values)
                               /\ {b[j] : j \in DOMAIN b}
                                    = {attrs[i].Values[j] :
                                            j \in DOMAIN attrs[i].Values}

\* C10: when the search fails with result code 32 the read empties the id,
\* changes nothing else and returns nil; when it fails with any other error
\* the read returns that error and leaves the resource data unchanged.
C10_ReadErrors ==
    [][(pc = "start" /\ pc' = "read") =>
          /\ search'.err = "ldap32" =>
                /\ d' = [d EXCEPT !.id = <<>>]
                /\ ret' = "nil"
          /\ search'.err \in {"ldap50", "neterr"} =>
                /\ d' = d
                /\ ret' = search'.err
          /\ UNCHANGED <<dn, skip>>]_vars

\* C10 witness: a read of a resource that had an id and an attribute found
\* no such object: the id is empty and the attribute is still in state.
C10_Witness ==
    /\ pc = "read"
    /\ search.err = "ldap32"
    /\ d.id = <<>>
    /\ d.attributes # (IF variant = "map" THEN <<>> ELSE {})

----------------------------------------------------------------------------
(* The handlers: create, read, update, delete *)

\* one step of a handler as the trace records it: the diff
\* ("computeAndAddDeltas") or a directory call ("Add", "Modify", "Del",
\* "Search") with what was sent and the error that came back
Call(call, req, err) == [call |-> call, req |-> req, err |-> err]

\* the errors of a directory call: result code 32, another LDAP result
\* code, an error that is not an *ldap.Error
Errors == {"ldap32", "ldap50", "neterr"}

\* the object_classes a configuration may declare
ClassSets == {{top}, {top, person}}

\* readLDAPObject of the variant v
readLDAPObject(v, dd, dnv, skipv, sr, updateState) ==
    IF v = "map" THEN readLDAPObjectMap(dd, dnv, skipv, sr, updateState)
    ELSE readLDAPObjectSet(dd, dnv, sr, updateState)

\* resourceLDAPObjectRead: one search, and the resource data it leaves
resourceLDAPObjectRead(v, dd, dnv, skipv, sr) ==
    LET r == readLDAPObject(v, dd, dnv, skipv, sr, TRUE)
    IN  [d |-> r.d, ret |-> r.ret, trace |-> <<Call("Search", dnv, sr.err)>>]

\* request.Attribute appends one attribute to the add request
RequestAttribute(request, name, vals) ==
    Append(request, [Name |-> name, Values |-> vals])

\* the loop of create over the declared map: names in attributesToSkip are
\* passed over, the others are decoded and appended
RECURSIVE CreateLoopMap(_, _, _, _)
CreateLoopMap(request, keys, attributes, attributesToSkip) ==
    IF keys = <<>> THEN request
    ELSE LET name == Head(keys)
             next ==
                IF stringListContains(name, attributesToSkip) THEN request
                ELSE RequestAttribute(request, name,
                                      maybeJSONStringToArray(attributes[name]))
         IN  CreateLoopMap(next, Tail(keys), attributes, attributesToSkip)

\* the add request of create, map-shaped: objectClass, then the declared
\* attributes in the order ord of the range over the map
CreateRequestMap(dd, skipv, ord) ==
    CreateLoopMap(RequestAttribute(<<>>, objectClass, SetToSeq(dd.object_classes)),
                  RangeKeys(dd.attributes, ord), dd.attributes,
                  AttributesToSkip(skipv))

\* the loop of create over m, the values collected per name, set-shaped
RECURSIVE CreateLoopSet(_, _, _)
CreateLoopSet(request, keys, m) ==
    IF keys = <<>> THEN request
    ELSE CreateLoopSet(RequestAttribute(request, Head(keys), m[Head(keys)]),
                       Tail(keys), m)

\* the add request of create, set-shaped: objectClass, then the names of m
\* in the order ord of the range over m
CreateRequestSet(dd, ord) ==
    LET m == DecodeSet(dd.attributes)
    IN  CreateLoopSet(RequestAttribute(<<>>, objectClass,
                                       SetToSeq(dd.object_classes)),
                      RangeKeys(m, ord), m)

\* create with SetId moved before client.Add
resourceLDAPObjectCreateIdFirst(v, dd, dnv, skipv, request, err, sr) ==
    IF err # "nil"
    THEN [d |-> [dd EXCEPT !.id = dnv], ret |-> err,
          trace |-> <<Call("Add", request, err)>>]
    ELSE LET r == resourceLDAPObjectRead(v, [dd EXCEPT !.id = dnv], dnv, skipv, sr)
         IN  [d |-> r.d, ret |-> r.ret,
              trace |-> <<Call("Add", request, err)>> \o r.trace]

\* resourceLDAPObjectCreate from client.Add on: dd holds the declared
\* values, request is the add request built from them, err is the outcome
\* of client.Add and sr the outcome of the search of the read
resourceLDAPObjectCreate(v, dd, dnv, skipv, request, err, sr) ==
    IF err # "nil"
    THEN [d |-> dd, ret |-> err, trace |-> <<Call("Add", request, err)>>]
    ELSE LET r == resourceLDAPObjectRead(v, [dd EXCEPT !.id = dnv], dnv, skipv, sr)
         IN  [d |-> r.d, ret |-> r.ret,
              trace |-> <<Call("Add", request, err)>> \o r.trace]

\* the modify request of update after the test of object_classes: when
\* they changed, objectClass is replaced by the declared classes; old is
\* the resource data before the change, dd the declared values
UpdateClasses(old, dd) ==
    IF old.object_classes # dd.object_classes
    THEN ModifyReplace(<<>>, objectClass, SetToSeq(dd.object_classes))
    ELSE <<>>

\* the modify request of update before client.Modify, and the trace so
\* far: when attributes changed the diff is computed; m0 is the request
\* after UpdateClasses and deltas is computeAndAddDeltas applied to m0
UpdateRequest(old, dd, m0, deltas) ==
    IF old.attributes # dd.attributes
    THEN [changes |-> deltas,
          trace |-> <<Call("computeAndAddDeltas", <<>>, "nil")>>]
    ELSE [changes |-> m0, trace |-> <<>>]

\* update that reads whether or not client.Modify failed
resourceLDAPObjectUpdateAlwaysRead(v, dd, dnv, skipv, req, err, sr) ==
    LET t == Append(req.trace, Call("Modify", req.changes, err))
        r == resourceLDAPObjectRead(v, dd, dnv, skipv, sr)
    IN  [d |-> r.d, ret |-> r.ret, trace |-> t \o r.trace]

\* resourceLDAPObjectUpdate from client.Modify on: req is the modify
\* request and the trace of its construction, err the outcome of
\* client.Modify and sr the outcome of the search of the read
resourceLDAPObjectUpdate(v, dd, dnv, skipv, req, err, sr) ==
    LET t == Append(req.trace, Call("Modify", req.changes, err))
    IN  IF err # "nil"
        THEN [d |-> dd, ret |-> err, trace |-> t]
        ELSE LET r == resourceLDAPObjectRead(v, dd, dnv, skipv, sr)
             IN  [d |-> r.d, ret |-> r.ret, trace |-> t \o r.trace]

\* resourceLDAPObjectDelete: one delete request, its error returned
resourceLDAPObjectDelete(dd, dnv, err) ==
    [d |-> dd, ret |-> err, trace |-> <<Call("Del", dnv, err)>>]

----------------------------------------------------------------------------
(* The directory as the handlers meet it: one entry under the DN, which an *)
(* add creates, a modify changes, a delete removes and a search returns.   *)
(* No entry is the empty mapping: an entry always holds its objectClass    *)
(* and the value of its RDN.                                               *)

\* the text of s before the first c, and the text after it
RECURSIVE Before(_, _)
Before(s, c) ==
    IF s = <<>> \/ Head(s) = c THEN <<>>
    ELSE <<Head(s)>> \o Before(Tail(s), c)

RECURSIVE After(_, _)
After(s, c) ==
    IF s = <<>> THEN <<>>
    ELSE IF Head(s) = c THEN Tail(s) ELSE After(Tail(s), c)

\* the mapping with the value of the RDN of dnv among the values of the
\* attribute the RDN names
WithRDN(attrs, dnv) ==
    LET name == Before(LeadingRDN(dnv), "=")
        value == After(LeadingRDN(dnv), "=")
        held == IF name \in DOMAIN attrs THEN attrs[name] ELSE <<>>
    IN  IF \E i \in DOMAIN held : held[i] = value THEN attrs
        ELSE With(attrs, name, held \o <<value>>)

\* the entry an accepted add request creates
DirectoryAdd(dnv, request) ==
    WithRDN([name \in {request[i].Name : i \in DOMAIN request} |->
                request[CHOOSE i \in DOMAIN request : request[i].Name = name].Values],
            dnv)

\* the entry the directory holds for a resource whose data is dd
DirectoryHolding(v, dd, dnv) ==
    IF dd.id = <<>> THEN <<>>
    ELSE WithRDN(With(Decode(v, dd.attributes), objectClass,
                      SetToSeq(dd.object_classes)), dnv)

\* the entry as a search returns it: objectClass, then the other
\* attributes in the order of NamePool; an attribute without values is not
\* part of an entry
EntryOf(attrs) ==
    LET order == <<objectClass>> \o [i \in 1..MaxNames |-> NamePool[i]]
        present == SelectSeq(order,
                             LAMBDA k : k \in DOMAIN attrs /\ attrs[k] # <<>>)
    IN  [Attributes |->
            [i \in DOMAIN present |->
                [Name |-> present[i], Values |-> attrs[present[i]]]]]

\* the outcome of client.Search that ends with err on the directory attrs
Answer(attrs, err) ==
    IF err = "nil" THEN [err |-> "nil", entry |-> EntryOf(attrs)]
    ELSE [err |-> err, entry |-> NoEntry]

\* the outcomes a directory call may have; a search finds an entry only
\* where there is one
Outcomes == {"nil"} \cup Errors

SearchOutcomes(attrs) == {e \in Outcomes : e = "nil" => attrs # <<>>}

\* whether the directory accepts the changes of a modify request on the
\* entry attrs: it refuses to add a value the attribute holds already and
\* to remove an attribute the entry does not hold
RECURSIVE Accepts(_, _)
Accepts(attrs, changes) ==
    IF changes = <<>> THEN TRUE
    ELSE LET c == Head(changes)
             held == IF c.name \in DOMAIN attrs THEN attrs[c.name] ELSE <<>>
         IN  /\ c.op = "Add" =>
                    \A i \in DOMAIN c.vals, j \in DOMAIN held : c.vals[i] # held[j]
             /\ c.op = "Delete" => held # <<>>
             /\ Accepts(ApplyChange(attrs, c), Tail(changes))

\* the outcomes of client.Modify with the changes on the entry attrs
ModifyOutcomes(attrs, changes) ==
    {e \in Outcomes : e = "nil" => Accepts(attrs, changes)}

\* whether the call whose trace is t searched the directory
Searched(t) == \E i \in DOMAIN t : t[i].call = "Search"

----------------------------------------------------------------------------
(* Specification of the handlers: the resource data before the call is     *)
(* drawn from a bounded set, the directory holds the entry that data       *)
(* stands for, and one handler is called with declared values and call     *)
(* outcomes drawn from the bounded sets.                                   *)

\* the declared attributes of a resource that exists already
PriorAttrs(v) ==
    IF v = "map" THEN {<<>>, NamePool[2] :> RawPool[1]}
    ELSE {{}, {NamePool[2] :> SetValPool[1]}}

\* the resource data before the call: not created yet, or created
PriorOps(v, dnv) ==
    {NoData(v)} \cup
    {[id |-> dnv, object_classes |-> {top}, attributes |-> a] :
        a \in PriorAttrs(v)}

Init ==
    /\ variant \in {"map", "set"}
    /\ pc = "start"
    /\ o = <<>>
    /\ n = <<>>
    /\ modify = <<>>
    /\ dn = DN1
    /\ skip \in (IF variant = "map" THEN {{}} \cup {{k} : k \in Names} ELSE {{}})
    /\ d \in PriorOps(variant, dn)
    /\ dir = DirectoryHolding(variant, d, dn)
    /\ search = "none"
    /\ ret = "none"
    /\ trace = <<>>

\* the state after a handler returned r, having declared attrs, sent the
\* changes m and left the directory as after; sr is the search outcome
Returned(r, attrs, m, after, sr) ==
    /\ o' = d.attributes
    /\ n' = attrs
    /\ modify' = m
    /\ dir' = after
    /\ d' = r.d
    /\ ret' = r.ret
    /\ trace' = r.trace
    /\ search' = IF Searched(r.trace) THEN sr ELSE "none"
    /\ UNCHANGED <<variant, dn, skip>>

\* resourceLDAPObjectCreate of resource_ldap_object.go
CreateMap ==
    /\ variant = "map"
    /\ pc = "start"
    /\ d.id = <<>>
    /\ \E classes \in ClassSets, attrs \in AttrMaps :
       \E ord \in KeyOrders[DOMAIN attrs], err \in Outcomes :
          LET dd == [id |-> <<>>, object_classes |-> classes,
                     attributes |-> attrs]
              request == CreateRequestMap(dd, skip, ord)
              after == IF err = "nil" THEN DirectoryAdd(dn, request) ELSE dir
          IN  \E serr \in SearchOutcomes(after) :
                 Returned(resourceLDAPObjectCreate(variant, dd, dn, skip,
                                request, err, Answer(after, serr)),
                          attrs, <<>>, after, Answer(after, serr))
    /\ pc' = "create"

\* resourceLDAPObjectCreate of part_000
CreateSet ==
    /\ variant = "set"
    /\ pc = "start"
    /\ d.id = <<>>
    /\ \E classes \in ClassSets, attrs \in AttrSets :
       \E ord \in KeyOrders[NamesOf(attrs)], err \in Outcomes :
          LET dd == [id |-> <<>>, object_classes |-> classes,
                     attributes |-> attrs]
              request == CreateRequestSet(dd, ord)
              after == IF err = "nil" THEN DirectoryAdd(dn, request) ELSE dir
          IN  \E serr \in SearchOutcomes(after) :
                 Returned(resourceLDAPObjectCreate(variant, dd, dn, skip,
                                request, err, Answer(after, serr)),
                          attrs, <<>>, after, Answer(after, serr))
    /\ pc' = "create"

\* resourceLDAPObjectUpdate of resource_ldap_object.go
UpdateMap ==
    /\ variant = "map"
    /\ pc = "start"
    /\ d.id # <<>>
    /\ \E classes \in ClassSets, attrs \in AttrMaps :
       \E ord1 \in KeyOrders[DOMAIN d.attributes],
          ord2, ord3 \in KeyOrders[DOMAIN attrs] :
          LET dd == [id |-> d.id, object_classes |-> classes,
                     attributes |-> attrs]
              m0 == UpdateClasses(d, dd)
              req == UpdateRequest(d, dd, m0,
                        computeAndAddDeltasMap(m0, d.attributes, attrs,
                                               ord1, ord2, ord3))
          IN  \E err \in ModifyOutcomes(dir, req.changes) :
                 LET after == IF err = "nil"
                              THEN ApplyChanges(dir, req.changes) ELSE dir
                 IN  \E serr \in SearchOutcomes(after) :
                        Returned(resourceLDAPObjectUpdate(variant, dd, dn,
                                    skip, req, err, Answer(after, serr)),
                                 attrs, req.changes, after,
                                 Answer(after, serr))
    /\ pc' = "update"

\* resourceLDAPObjectUpdate of part_000
UpdateSet ==
    /\ variant = "set"
    /\ pc = "start"
    /\ d.id # <<>>
    /\ \E classes \in ClassSets, attrs \in AttrSets :
       \E ordR \in KeyOrders[RemovedNames(d.attributes, attrs)],
          ordA \in KeyOrders[AddedNames(d.attributes, attrs)],
          ordC \in KeyOrders[RemovedNames(d.attributes, attrs)
                             \cup AddedNames(d.attributes, attrs)] :
          LET dd == [id |-> d.id, object_classes |-> classes,
                     attributes |-> attrs]
              m0 == UpdateClasses(d, dd)
              req == UpdateRequest(d, dd, m0,
                        computeAndAddDeltasSet(m0, d.attributes, attrs,
                                               ordR, ordA, ordC))
          IN  \E err \in ModifyOutcomes(dir, req.changes) :
                 LET after == IF err = "nil"
                              THEN ApplyChanges(dir, req.changes) ELSE dir
                 IN  \E serr \in SearchOutcomes(after) :
                        Returned(resourceLDAPObjectUpdate(variant, dd, dn,
                                    skip, req, err, Answer(after, serr)),
                                 attrs, req.changes, after,
                                 Answer(after, serr))
    /\ pc' = "update"

\* resourceLDAPObjectRead of either variant
Read ==
    /\ pc = "start"
    /\ d.id # <<>>
    /\ \E serr \in SearchOutcomes(dir) :
          Returned(resourceLDAPObjectRead(variant, d, dn, skip,
                                          Answer(dir, serr)),
                   d.attributes, <<>>, dir, Answer(dir, serr))
    /\ pc' = "read"

\* resourceLDAPObjectDelete of either variant
Delete ==
    /\ pc = "start"
    /\ d.id # <<>>
    /\ \E err \in Outcomes :
          Returned(resourceLDAPObjectDelete(d, dn, err), d.attributes, <<>>,
                   IF err = "nil" THEN <<>> ELSE dir, "none")
    /\ pc' = "delete"

Next == CreateMap \/ CreateSet \/ UpdateMap \/ UpdateSet \/ Read \/ Delete

Spec == Init /\ [][Next]_vars

----------------------------------------------------------------------------
(* The shape of a call *)

\* the positions of the trace t that hold one of the calls
Positions(t, calls) == {i \in DOMAIN t : t[i].call \in calls}

Writes == {"Add", "Modify", "Del"}

\* C11: in one update the diff, if computed, comes before every directory
\* call; exactly one modify request is sent and it is the only write; the
\* confirming search is performed once, after the modify, when the modify
\* succeeded and not at all when it failed; no write follows the search.
C11_UpdateShape ==
    pc = "update" =>
        LET diffs == Positions(trace, {"computeAndAddDeltas"})
            mods == Positions(trace, {"Modify"})
            searches == Positions(trace, {"Search"})
        IN  /\ Cardinality(mods) = 1
            /\ Positions(trace, Writes) = mods
            /\ \A i \in diffs : \A j \in mods \cup searches : i < j
            /\ \A i \in searches : \A j \in mods : j < i
            /\ Cardinality(searches) =
                  IF \A j \in mods : trace[j].err = "nil" THEN 1 ELSE 0

\* C11 witness: an update whose attributes changed computed the diff, sent
\* a modify request with changes, and read the entry back.
C11_Witness ==
    /\ pc = "update"
    /\ [i \in DOMAIN trace |-> trace[i].call]
          = <<"computeAndAddDeltas", "Modify", "Search">>
    /\ modify # <<>>
    /\ ret = "nil"

\* C12: create, update and delete issue their write (add, modify, delete)
\* at most once; when the write fails, with whatever error, the call
\* returns that error, the failed write is the last thing the call did (no
\* second attempt, no confirming search), and create has set no id.
C12_SingleShotFailures ==
    pc \in {"create", "update", "delete"} =>
        LET writes == Positions(trace, Writes)
        IN  /\ Cardinality(writes) <= 1
            /\ \A i \in writes :
                  trace[i].err # "nil" =>
                      /\ ret = trace[i].err
                      /\ i = Len(trace)
                      /\ ~Searched(trace)
                      /\ pc = "create" => d.id = <<>>

\* C12 witness: a create whose add request was refused with "no such
\* object" returned that error after the one add, with no id set.
C12_Witness ==
    /\ pc = "create"
    /\ Len(trace) = 1
    /\ trace[1].call = "Add"
    /\ trace[1].err = "ldap32"
    /\ ret = "ldap32"
    /\ d.id = <<>>

----------------------------------------------------------------------------
(* The order of the changes of the map-shaped patch *)

\* the place of a kind of change in the order Remove, Add, Replace
Rank(op) == CASE op = "Delete" -> 1 [] op = "Add" -> 2 [] op = "Replace" -> 3

\* C13: in the changes computeAndAddDeltas (map-shaped) appended to the
\* modify request, every Remove comes before every Add and every Add
\* before every Replace, whatever the old and new maps are.
C13_MapPatchOrder ==
    (variant = "map" /\ pc \in {"computed", "applied"}) =>
        \A i, j \in DOMAIN modify :
            i < j => Rank(modify[i].op) <= Rank(modify[j].op)

\* C13 witness: a map-shaped patch that holds a Remove and an Add has been
\* computed.
C13_Witness ==
    /\ variant = "map"
    /\ pc = "computed"
    /\ \E i, j \in DOMAIN modify :
          modify[i].op = "Delete" /\ modify[j].op = "Add"

----------------------------------------------------------------------------
(* skip_attributes *)

\* C14: in the map-shaped variant, whatever create, read or update did, no
\* attribute named in skip_attributes is part of an add request or of a
\* change (Add, Remove or Replace) of a modify request, and none is among
\* the declared attributes a successful read wrote.
C14_SkippedIgnored ==
    (variant = "map" /\ pc \in {"create", "read", "update"}) =>
        /\ \A i \in Positions(trace, {"Add"}) :
              \A j \in DOMAIN trace[i].req : trace[i].req[j].Name \notin skip
        /\ \A i \in Positions(trace, {"Modify"}) :
              \A j \in DOMAIN trace[i].req : trace[i].req[j].name \notin skip
        /\ (Searched(trace) /\ search.err = "nil") =>
              DOMAIN d.attributes \cap skip = {}

====
